---- MODULE Spec2Model ----
(***************************************************************************)
(* Model of scripts/parse_correlations.py: a command-line script that      *)
(* reads a JSON array of parking-zone records and prints Rust source for a *)
(* vector of StaticAddressEntry values.                                    *)
(*                                                                         *)
(* Characters are modelled by name: "BS" backslash, "DQ" double quote,     *)
(* "LF" newline, "CR" carriage return, "TAB" tab, "SUP2" the superscript   *)
(* two U+00B2; every other character stands for itself.  A Python string   *)
(* is a sequence of characters.                                            *)
(***************************************************************************)
EXTENDS Integers, Sequences, FiniteSets, TLC

\* Largest number of records in the input array.
MaxRecords == 2
\* Longest string handed to escape_rust_string on its own.
MaxLen == 3

VARIABLES argc, file, data, pc, i, loc, stdout, stderr, status,
          epc, es, eout

vars == <<argc, file, data, pc, i, loc, stdout, stderr, status, epc, es, eout>>
runVars == <<argc, file, data, pc, i, loc, stdout, stderr, status>>
escVars == <<epc, es, eout>>

(***************************************************************************)
(* Strings                                                                 *)
(***************************************************************************)
AsciiDigits == {"0", "1", "2", "3", "5", "8", "9"}
Whitespace == {"LF", "CR", "TAB"}

DigitValue(c) ==
    CASE c = "0" -> 0 [] c = "1" -> 1 [] c = "2" -> 2 [] c = "3" -> 3
      [] c = "5" -> 5 [] c = "8" -> 8 [] c = "9" -> 9

\* str.replace(old, new) for a one-character old: every occurrence, left to
\* right, is replaced by the sequence rep.
RECURSIVE Replace(_, _, _)
Replace(s, c, rep) ==
    IF s = <<>> THEN <<>>
    ELSE (IF Head(s) = c THEN rep ELSE <<Head(s)>>) \o Replace(Tail(s), c, rep)

\* The same five replacements with the backslash pass moved to the end.
escape_backslash_last(s) ==
    LET s1 == Replace(s, "DQ", <<"BS", "DQ">>)
        s2 == Replace(s1, "LF", <<"BS", "n">>)
        s3 == Replace(s2, "CR", <<"BS", "r">>)
        s4 == Replace(s3, "TAB", <<"BS", "t">>)
    IN  Replace(s4, "BS", <<"BS", "BS">>)

escape_rust_string(s) ==
    LET s1 == Replace(s, "BS", <<"BS", "BS">>)
        s2 == Replace(s1, "DQ", <<"BS", "DQ">>)
        s3 == Replace(s2, "LF", <<"BS", "n">>)
        s4 == Replace(s3, "CR", <<"BS", "r">>)
    IN  Replace(s4, "TAB", <<"BS", "t">>)

\* str.isdigit(): true of a non-empty string all of whose characters have
\* the Unicode property Digit or Decimal; SUP2 has the property Digit.
IsDigitChar(c) == c \in AsciiDigits \cup {"SUP2"}
isdigit(s) == s # <<>> /\ \A k \in 1..Len(s) : IsDigitChar(s[k])

(***************************************************************************)
(* JSON values as json.load returns them.  k is the Python type: "str",    *)
(* "int", "float" (n / 10^d, n not divisible by 10 unless d = 0), "null"   *)
(* (None); "absent" marks a key the object does not have.                  *)
(***************************************************************************)
JStr(s) == [k |-> "str", s |-> s, n |-> 0, d |-> 0]
JInt(n) == [k |-> "int", s |-> <<>>, n |-> n, d |-> 0]
JFloat(n, d) == [k |-> "float", s |-> <<>>, n |-> n, d |-> d]
JNull == [k |-> "null", s |-> <<>>, n |-> 0, d |-> 0]
Absent == [k |-> "absent", s |-> <<>>, n |-> 0, d |-> 0]

RequiredFields == <<"adress", "gata", "gatunummer", "postnummer", "dag", "tid">>
StringFields == {"adress", "gata", "gatunummer", "tid"}
FieldNames == {"adress", "gata", "gatunummer", "postnummer", "dag", "tid",
               "info", "distance"}

\* The result of evaluating an expression: exc = "none" and the value v, or
\* the exception raised; key is the key a KeyError carries.
Ok(v) == [exc |-> "none", key |-> "", v |-> v]
Raise(e, key) == [exc |-> e, key |-> key, v |-> Absent]

RECURSIVE Pow10(_)
Pow10(d) == IF d = 0 THEN 1 ELSE 10 * Pow10(d - 1)

RECURSIVE StripLeft(_)
StripLeft(s) ==
    IF s # <<>> /\ Head(s) \in Whitespace THEN StripLeft(Tail(s)) ELSE s

RECURSIVE StripRight(_)
StripRight(s) ==
    IF s # <<>> /\ s[Len(s)] \in Whitespace
    THEN StripRight(SubSeq(s, 1, Len(s) - 1)) ELSE s

Strip(s) == StripLeft(StripRight(s))

RECURSIVE DigitsValue(_)
DigitsValue(s) ==
    IF s = <<>> THEN 0
    ELSE 10 * DigitsValue(SubSeq(s, 1, Len(s) - 1)) + DigitValue(s[Len(s)])

AllAsciiDigits(s) == s # <<>> /\ \A k \in 1..Len(s) : s[k] \in AsciiDigits

\* int(v): an int is kept, a float is truncated toward zero, a string is
\* parsed as an optionally signed decimal numeral between optional
\* whitespace (ValueError otherwise), None raises TypeError.
int(v) ==
    CASE v.k = "int" -> Ok(JInt(v.n))
      [] v.k = "float" ->
            Ok(JInt(IF v.n >= 0 THEN v.n \div Pow10(v.d)
                    ELSE -((-v.n) \div Pow10(v.d))))
      [] v.k = "str" ->
            LET t == Strip(v.s)
                neg == t # <<>> /\ Head(t) = "-"
                body == IF neg THEN Tail(t) ELSE t
            IN  IF AllAsciiDigits(body)
                THEN Ok(JInt(IF neg THEN -DigitsValue(body) ELSE DigitsValue(body)))
                ELSE Raise("ValueError", "")
      [] OTHER -> Raise("TypeError", "")

RECURSIVE Normalize(_, _)
Normalize(n, d) ==
    IF d > 0 /\ n % 10 = 0 THEN Normalize(n \div 10, d - 1) ELSE JFloat(n, d)

IndexOf(s, c) ==
    IF \E k \in 1..Len(s) : s[k] = c
    THEN CHOOSE k \in 1..Len(s) : s[k] = c /\ \A j \in 1..(k - 1) : s[j] # c
    ELSE 0

\* float(v): an int or a float gives its value, a string is parsed as an
\* optionally signed decimal literal "ddd" or "ddd.ddd" between optional
\* whitespace (ValueError otherwise), None raises TypeError.
float(v) ==
    CASE v.k = "int" -> Ok(JFloat(v.n, 0))
      [] v.k = "float" -> Ok(v)
      [] v.k = "str" ->
            LET t == Strip(v.s)
                neg == t # <<>> /\ Head(t) = "-"
                body == IF neg THEN Tail(t) ELSE t
                dot == IndexOf(body, ".")
                ip == IF dot = 0 THEN body ELSE SubSeq(body, 1, dot - 1)
                fp == IF dot = 0 THEN <<>> ELSE SubSeq(body, dot + 1, Len(body))
                wellformed == /\ ip \o fp # <<>>
                              /\ \A k \in 1..Len(ip \o fp) : (ip \o fp)[k] \in AsciiDigits
                m == DigitsValue(ip \o fp)
            IN  IF wellformed
                THEN Ok(Normalize(IF neg THEN -m ELSE m, Len(fp)))
                ELSE Raise("ValueError", "")
      [] OTHER -> Raise("TypeError", "")

\* entry[f]: TypeError when the array element is not an object, KeyError(f)
\* when the object has no key f.
Subscript(entry, f) ==
    IF ~entry.obj THEN Raise("TypeError", "")
    ELSE IF entry.f[f].k = "absent" THEN Raise("KeyError", f)
    ELSE Ok(entry.f[f])

\* entry.get(f, default)
Get(entry, f, default) ==
    IF entry.f[f].k = "absent" THEN default ELSE entry.f[f]

\* escape_rust_string applied to a JSON value: s.replace raises
\* AttributeError when s is not a str.
EscapeValue(v) ==
    IF v.k = "str" THEN Ok(JStr(escape_rust_string(v.s)))
    ELSE Raise("AttributeError", "")

\* One right-hand side of lines 52-57: the subscript, then the conversion.
RequiredValue(entry, f) ==
    LET x == Subscript(entry, f)
    IN  IF x.exc # "none" THEN x
        ELSE IF f \in StringFields THEN EscapeValue(x.v)
        ELSE int(x.v)

(***************************************************************************)
(* Output.  A line of standard output and a message of the error stream    *)
(* are records; tag / kind names the print statement that wrote it.        *)
(***************************************************************************)
OutLine(tag, name, v) == [tag |-> tag, name |-> name, v |-> v]
OpenLine == OutLine("open", "", Absent)            \* let entries = vec![
BlockOpen == OutLine("block_open", "", Absent)     \*     StaticAddressEntry {
BlockClose == OutLine("block_close", "", Absent)   \*     },
CloseLine == OutLine("close", "", Absent)          \* ];
BlankLine == OutLine("blank", "", Absent)
CountLine(n) == OutLine("count", "", JInt(n))      \* // Generated n address entries
FieldLine(name, v) == OutLine("field", name, v)    \*         name: v,

\* index is the entry index the text states (-1: none), field the field
\* name the text states ("": none), v the value the text states.
ErrMsg(kind, index, field, v) ==
    [kind |-> kind, index |-> index, field |-> field, v |-> v]
UsageLines ==
    << ErrMsg("usage", -1, "", Absent), ErrMsg("usage_example", -1, "", Absent),
       ErrMsg("usage_cargo", -1, "", Absent), ErrMsg("usage_python", -1, "", Absent) >>
\* The traceback of an uncaught exception names the exception and shows the
\* source line that raised it, and no entry index.
Traceback(exc, field) == ErrMsg("traceback_" \o exc, -1, field, Absent)

BlockFields == <<"adress", "gata", "gatunummer", "postnummer", "dag", "tid",
                 "info", "distance">>

\* The block with the fields listed in alphabetical order.
BlockLineSorted(l, k) ==
    LET order == <<"adress", "dag", "distance", "gata", "gatunummer", "info",
                   "postnummer", "tid">>
    IN  IF k = 0 THEN BlockOpen
        ELSE IF k = 9 THEN BlockClose
        ELSE FieldLine(order[k], l[order[k]])

\* The k-th of the ten lines of an entry block (lines 79-88), k in 0..9.
BlockLine(l, k) ==
    IF k = 0 THEN BlockOpen
    ELSE IF k = 9 THEN BlockClose
    ELSE FieldLine(BlockFields[k], l[BlockFields[k]])

(***************************************************************************)
(* Inputs                                                                  *)
(***************************************************************************)
Str_a == <<"a">>
Str_special == <<"DQ", "BS", "LF">>
Tid_ok == <<"0", "8", "0", "0", "-", "1", "2", "0", "0">>
Tid_range == <<"2", "5", "0", "0", "-", "0", "1", "0", "0">>
Tid_short == <<"9", "-", "1", "0", "0">>
Tid_sup == <<"SUP2", "SUP2", "SUP2", "SUP2", "-", "0", "0", "0", "0">>
Tid_tab == <<"0", "8", "0", "TAB", "-", "1", "2", "0", "0">>
Tid_nodash == <<"0", "8", "0", "0", "a", "1", "2", "0", "0">>

Obj(f) == [obj |-> TRUE, f |-> f]
NotAnObject == [obj |-> FALSE, f |-> [x \in FieldNames |-> Absent]]

BaseFields ==
    [x \in FieldNames |->
        CASE x = "adress" -> JStr(Str_a)
          [] x = "gata" -> JStr(Str_a)
          [] x = "gatunummer" -> JStr(<<"1">>)
          [] x = "postnummer" -> JInt(21)
          [] x = "dag" -> JInt(1)
          [] x = "tid" -> JStr(Tid_ok)
          [] x = "info" -> Absent
          [] x = "distance" -> Absent]

With(f, x, v) == [f EXCEPT ![x] = v]

\* The values each field takes in the records tried.
FieldValues(x) ==
    CASE x = "adress" -> {JStr(Str_special), JInt(5), Absent}
      [] x = "gata" -> {JNull, Absent}
      [] x = "gatunummer" -> {JInt(5)}
      [] x = "postnummer" -> {JStr(<<"1", "2">>), JStr(<<"a">>), JFloat(25, 1),
                              JNull, Absent}
      [] x = "dag" -> {JInt(0), JInt(31), JInt(32), JStr(<<"3", "2">>),
                       JFloat(319, 1), JStr(<<"a">>), Absent}
      [] x = "tid" -> {JStr(Tid_range), JStr(Tid_short), JStr(Tid_sup),
                       JStr(Tid_tab), JStr(Tid_nodash), JInt(5), Absent}
      [] x = "info" -> {JStr(Str_a), JStr(Str_special), JInt(5), JNull}
      [] x = "distance" -> {JFloat(15, 1), JInt(3), JStr(<<"2", ".", "5">>),
                            JStr(<<"a">>), JNull}

\* The records tried: the base record, the base record with one field
\* changed, some records with two fields changed, and a non-object.
Entries ==
    {Obj(BaseFields), NotAnObject}
    \cup {Obj(With(BaseFields, x, v)) : <<x, v>> \in
             UNION {{<<y, w>> : w \in FieldValues(y)} : y \in FieldNames}}
    \cup {Obj(With(With(BaseFields, "dag", JInt(32)), "info", JInt(5))),
          Obj(With(With(BaseFields, "dag", JInt(32)), "tid", JStr(Tid_short))),
          Obj(With(With(BaseFields, "dag", JInt(32)), "distance", JStr(<<"a">>))),
          Obj(With(With(BaseFields, "adress", JInt(5)), "gata", Absent)),
          Obj(With(With(BaseFields, "info", JStr(Str_a)), "distance", JInt(3)))}

\* A top-level JSON value: a list of entries, or something that is no list.
JList(items) == [list |-> TRUE, items |-> items]
NotAList == [list |-> FALSE, items |-> <<>>]

Arrays == UNION {[1..n -> Entries] : n \in 0..MaxRecords}

\* A run: the length of sys.argv, what opening and parsing the file gives
\* ("missing": FileNotFoundError, "badjson": JSONDecodeError, "unreadable":
\* another exception of open or read, such as PermissionError, "ok"), and
\* the parsed value.
Runs ==
    {[argc |-> a, file |-> "ok", data |-> NotAList] : a \in {1, 3}}
    \cup {[argc |-> 2, file |-> s, data |-> NotAList] : s \in {"missing", "badjson", "unreadable"}}
    \cup {[argc |-> 2, file |-> "ok", data |-> NotAList]}
    \cup {[argc |-> 2, file |-> "ok", data |-> JList(a)] : a \in Arrays}

NoLocals == [x \in FieldNames |-> Absent]

EscIdle == /\ epc = "idle" /\ es = <<>> /\ eout = <<>>

Init ==
    /\ \E r \in Runs : argc = r.argc /\ file = r.file /\ data = r.data
    /\ pc = "main"
    /\ i = 0
    /\ loc = NoLocals
    /\ stdout = <<>>
    /\ stderr = <<>>
    /\ status = -1
    /\ EscIdle

Exit(code) == pc' = "exit" /\ status' = code

\* Lines 95-104: the argument count check.  The second print of the usage
\* text has no file argument.
Main ==
    /\ pc = "main"
    /\ IF argc # 2
       THEN /\ stderr' = stderr \o UsageLines
            /\ stdout' = Append(stdout, BlankLine)
            /\ Exit(1)
       ELSE /\ pc' = "load"
            /\ UNCHANGED <<stdout, stderr, status>>
    /\ UNCHANGED <<argc, file, data, i, loc, escVars>>

\* Lines 29-37: open and json.load; an exception other than the two caught
\* ends the run with a traceback.
Load ==
    /\ pc = "load"
    /\ CASE file = "missing" ->
              /\ stderr' = Append(stderr, ErrMsg("file_not_found", -1, "", Absent))
              /\ Exit(1)
         [] file = "badjson" ->
              /\ stderr' = Append(stderr, ErrMsg("invalid_json", -1, "", Absent))
              /\ Exit(1)
         [] file = "unreadable" ->
              /\ stderr' = Append(stderr, Traceback("OSError", ""))
              /\ Exit(1)
         [] OTHER ->
              /\ pc' = "toplevel"
              /\ UNCHANGED <<stderr, status>>
    /\ UNCHANGED <<argc, file, data, i, loc, stdout, escVars>>

\* The opening line printed before the two top-level checks.
TopLevelOpenFirst ==
    /\ pc = "toplevel"
    /\ stdout' = Append(stdout, OpenLine)
    /\ IF ~data.list
       THEN /\ stderr' = Append(stderr, ErrMsg("not_an_array", -1, "", Absent))
            /\ Exit(1)
            /\ UNCHANGED i
       ELSE IF data.items = <<>>
       THEN /\ stderr' = Append(stderr, ErrMsg("array_empty", -1, "", Absent))
            /\ Exit(1)
            /\ UNCHANGED i
       ELSE /\ i' = 0
            /\ pc' = "required"
            /\ UNCHANGED <<stderr, status>>
    /\ UNCHANGED <<argc, file, data, loc, escVars>>

\* Lines 39-49: the two top-level checks, the opening line, and the start
\* of the loop.
TopLevel ==
    /\ pc = "toplevel"
    /\ IF ~data.list
       THEN /\ stderr' = Append(stderr, ErrMsg("not_an_array", -1, "", Absent))
            /\ Exit(1)
            /\ UNCHANGED <<stdout, i>>
       ELSE IF data.items = <<>>
       THEN /\ stderr' = Append(stderr, ErrMsg("array_empty", -1, "", Absent))
            /\ Exit(1)
            /\ UNCHANGED <<stdout, i>>
       ELSE /\ stdout' = Append(stdout, OpenLine)
            /\ i' = 0
            /\ pc' = "required"
            /\ UNCHANGED <<stderr, status>>
    /\ UNCHANGED <<argc, file, data, loc, escVars>>

\* The array walked from its last element to its first.
EntryReversed == data.items[Len(data.items) - i]

\* The entry the loop is at (enumerate counts from 0).
Entry == data.items[i + 1]

\* The position in RequiredFields of the first assignment of lines 52-57
\* that raises, 7 when none does.
FirstFailure(entry) ==
    IF \E k \in 1..6 : RequiredValue(entry, RequiredFields[k]).exc # "none"
    THEN CHOOSE k \in 1..6 :
            /\ RequiredValue(entry, RequiredFields[k]).exc # "none"
            /\ \A j \in 1..(k - 1) : RequiredValue(entry, RequiredFields[j]).exc = "none"
    ELSE 7

FieldIndex(x) == CHOOSE k \in 1..8 : BlockFields[k] = x

Caught == {"KeyError", "ValueError", "TypeError"}

\* Lines 50-60: the six required fields, assigned in order; the first
\* exception ends the try block, and one that the except clause does not
\* name ends the run with a traceback.
Required ==
    /\ pc = "required"
    /\ LET k == FirstFailure(Entry)
           r == RequiredValue(Entry, RequiredFields[k])
       IN  /\ loc' = [x \in FieldNames |->
                        IF FieldIndex(x) < k /\ FieldIndex(x) <= 6
                        THEN RequiredValue(Entry, x).v ELSE loc[x]]
           /\ IF k = 7
              THEN /\ pc' = "optional"
                   /\ UNCHANGED <<stderr, status>>
              ELSE IF r.exc \in Caught
              THEN /\ stderr' = Append(stderr,
                                   ErrMsg("entry_error_" \o r.exc, i, r.key, Absent))
                   /\ Exit(1)
              ELSE /\ stderr' = Append(stderr, Traceback(r.exc, RequiredFields[k]))
                   /\ Exit(1)
    /\ UNCHANGED <<argc, file, data, i, stdout, escVars>>

\* The optional fields converted after the first line of the block is
\* printed.
OptionalAfterBlockOpen ==
    /\ pc = "optional"
    /\ LET a == EscapeValue(Get(Entry, "info", JStr(<<"P", "a", "r", "k", "e", "r", "i", "n", "g">>)))
           b == float(Get(Entry, "distance", JFloat(0, 0)))
       IN  IF a.exc # "none"
           THEN /\ stderr' = Append(stderr, Traceback(a.exc, "info"))
                /\ stdout' = Append(stdout, BlockOpen)
                /\ Exit(1)
                /\ UNCHANGED loc
           ELSE IF b.exc # "none"
           THEN /\ stderr' = Append(stderr, Traceback(b.exc, "distance"))
                /\ stdout' = Append(stdout, BlockOpen)
                /\ Exit(1)
                /\ loc' = [loc EXCEPT !["info"] = a.v]
           ELSE /\ loc' = [loc EXCEPT !["info"] = a.v, !["distance"] = b.v]
                /\ pc' = "checks"
                /\ UNCHANGED <<stdout, stderr, status>>
    /\ UNCHANGED <<argc, file, data, i, escVars>>

\* Lines 62-64: the optional fields, outside any try block.
Optional ==
    /\ pc = "optional"
    /\ LET a == EscapeValue(Get(Entry, "info", JStr(<<"P", "a", "r", "k", "e", "r", "i", "n", "g">>)))
           b == float(Get(Entry, "distance", JFloat(0, 0)))
       IN  IF a.exc # "none"
           THEN /\ stderr' = Append(stderr, Traceback(a.exc, "info"))
                /\ Exit(1)
                /\ UNCHANGED loc
           ELSE IF b.exc # "none"
           THEN /\ stderr' = Append(stderr, Traceback(b.exc, "distance"))
                /\ Exit(1)
                /\ loc' = [loc EXCEPT !["info"] = a.v]
           ELSE /\ loc' = [loc EXCEPT !["info"] = a.v, !["distance"] = b.v]
                /\ pc' = "checks"
                /\ UNCHANGED <<stderr, status>>
    /\ UNCHANGED <<argc, file, data, i, stdout, escVars>>

\* The condition of lines 71-76 on the variable tid.
TidShapeOk(tid) ==
    /\ Len(tid) = 9
    /\ tid[5] = "-"
    /\ isdigit(SubSeq(tid, 1, 4))
    /\ isdigit(SubSeq(tid, 6, Len(tid)))

DagWarning(idx, dag) == ErrMsg("warning_dag", idx, "dag", dag)
TidWarning(idx, tid) == ErrMsg("warning_tid", idx, "tid", tid)

\* The dag check with the upper bound excluded.
ChecksOffByOne ==
    /\ pc = "checks"
    /\ stderr' = stderr
                 \o (IF ~(1 <= loc["dag"].n /\ loc["dag"].n < 31)
                     THEN <<DagWarning(i, loc["dag"])>> ELSE <<>>)
                 \o (IF ~TidShapeOk(loc["tid"].s)
                     THEN <<TidWarning(i, loc["tid"])>> ELSE <<>>)
    /\ pc' = "emit"
    /\ UNCHANGED <<argc, file, data, i, loc, stdout, status, escVars>>

\* Lines 66-77: the two warnings.
Checks ==
    /\ pc = "checks"
    /\ stderr' = stderr
                 \o (IF ~(1 <= loc["dag"].n /\ loc["dag"].n <= 31)
                     THEN <<DagWarning(i, loc["dag"])>> ELSE <<>>)
                 \o (IF ~TidShapeOk(loc["tid"].s)
                     THEN <<TidWarning(i, loc["tid"])>> ELSE <<>>)
    /\ pc' = "emit"
    /\ UNCHANGED <<argc, file, data, i, loc, stdout, status, escVars>>

\* Lines 79-88: the ten prints of one entry block, which nothing separates,
\* then the next iteration or the end of the loop.
Emit ==
    /\ pc = "emit"
    /\ stdout' = stdout \o [k \in 1..10 |-> BlockLine(loc, k - 1)]
    /\ i' = i + 1
    /\ pc' = IF i + 1 < Len(data.items) THEN "required" ELSE "final"
    /\ UNCHANGED <<argc, file, data, loc, stderr, status, escVars>>

\* Lines 90-92, and the normal end of the script.
Final ==
    /\ pc = "final"
    /\ stdout' = stdout \o <<CloseLine, BlankLine, CountLine(Len(data.items))>>
    /\ Exit(0)
    /\ UNCHANGED <<argc, file, data, i, loc, stderr, escVars>>

Next == Main \/ Load \/ TopLevel \/ Required \/ Optional \/ Checks \/ Emit \/ Final

Spec == Init /\ [][Next]_vars

(***************************************************************************)
(* escape_rust_string on its own: the argument is any string of at most    *)
(* MaxLen characters over EscAlphabet.                                     *)
(***************************************************************************)
EscAlphabet == {"BS", "DQ", "LF", "CR", "TAB", "n", "r", "t", "a"}
EscStrings == UNION {[1..n -> EscAlphabet] : n \in 0..MaxLen}

RunIdle ==
    /\ argc = 2 /\ file = "ok" /\ data = NotAList /\ pc = "idle" /\ i = 0
    /\ loc = NoLocals /\ stdout = <<>> /\ stderr = <<>> /\ status = -1

InitEsc ==
    /\ RunIdle
    /\ epc = "start"
    /\ es \in EscStrings
    /\ eout = <<>>

\* Lines 16-24: one call of escape_rust_string.
EscapeCall ==
    /\ epc = "start"
    /\ eout' = escape_rust_string(es)
    /\ epc' = "escaped"
    /\ UNCHANGED <<es, runVars>>

NextEsc == EscapeCall

SpecEsc == InitEsc /\ [][NextEsc]_vars

(***************************************************************************)
(* Properties                                                              *)
(***************************************************************************)
N == Len(data.items)
Rec(j) == data.items[j + 1]

\* The run has printed the opening line and entered the loop.
InLoop ==
    /\ argc = 2 /\ file = "ok" /\ data.list /\ data.items # <<>>
    /\ pc \in {"required", "optional", "checks", "emit", "final", "exit"}

\* The six required fields are present and of, or coercible to, their type.
RequiredWellFormed(e) ==
    /\ e.obj
    /\ \A x \in StringFields : e.f[x].k = "str"
    /\ \A x \in {"postnummer", "dag"} : e.f[x].k # "absent" /\ int(e.f[x]).exc = "none"

\* The optional fields are absent or of, or coercible to, their type.
OptionalWellFormed(e) ==
    /\ e.f["info"].k \in {"absent", "str"}
    /\ e.f["distance"].k = "absent" \/ float(e.f["distance"]).exc = "none"

Parkering == <<"P", "a", "r", "k", "e", "r", "i", "n", "g">>

\* The block of a record, from the record as given in the input.
ExpectedBlock(e) ==
    << BlockOpen,
       FieldLine("adress", JStr(escape_rust_string(e.f["adress"].s))),
       FieldLine("gata", JStr(escape_rust_string(e.f["gata"].s))),
       FieldLine("gatunummer", JStr(escape_rust_string(e.f["gatunummer"].s))),
       FieldLine("postnummer", int(e.f["postnummer"]).v),
       FieldLine("dag", int(e.f["dag"]).v),
       FieldLine("tid", JStr(escape_rust_string(e.f["tid"].s))),
       FieldLine("info", IF e.f["info"].k = "absent" THEN JStr(Parkering)
                         ELSE JStr(escape_rust_string(e.f["info"].s))),
       FieldLine("distance", IF e.f["distance"].k = "absent" THEN JFloat(0, 0)
                             ELSE float(e.f["distance"]).v),
       BlockClose >>

\* The blocks of the first k records, in input order.
RECURSIVE ExpectedBlocks(_)
ExpectedBlocks(k) ==
    IF k = 0 THEN <<>> ELSE ExpectedBlocks(k - 1) \o ExpectedBlock(Rec(k - 1))

Closing == <<CloseLine, BlankLine, CountLine(N)>>
FullOutput == <<OpenLine>> \o ExpectedBlocks(N) \o Closing

\* Lines 2 + 10j .. 11 + 10j of standard output: the place of block j.
BlockAt(j) ==
    IF Len(stdout) >= 11 + 10 * j THEN SubSeq(stdout, 2 + 10 * j, 11 + 10 * j)
    ELSE <<>>

OnStderr(m) == \E k \in 1..Len(stderr) : stderr[k] = m
LastError == stderr[Len(stderr)]

\* The checks of lines 66-77 have run for record j.
Checked(j) == j < i \/ (j = i /\ pc = "emit")

DagOf(e) == int(e.f["dag"]).v
DagOutside(e) == DagOf(e).n < 1 \/ DagOf(e).n > 31

\* The run ended in the try block of record i.
FailedAtRequired ==
    InLoop /\ pc = "exit" /\ status = 1 /\ ~RequiredWellFormed(Rec(i))

\* The required fields of e that are absent or not of their type.
OffendingFields(e) ==
    {x \in {"adress", "gata", "gatunummer", "postnummer", "dag", "tid"} :
        \/ ~e.obj
        \/ e.f[x].k = "absent"
        \/ (x \in StringFields /\ e.f[x].k # "str")
        \/ (x \notin StringFields /\ int(e.f[x]).exc # "none")}

\* C1, as stated: when the six required fields of all N >= 1 records are
\* well-formed, a finished run has written the opening line, the N blocks in
\* input order, the closing token, the blank line and the count N.
C1_AllRequiredValidGivesNBlocks ==
    (pc = "exit" /\ InLoop /\ \A j \in 0..(N - 1) : RequiredWellFormed(Rec(j)))
        => stdout = FullOutput

\* C1, amended: when the six required fields of all N >= 1 records are
\* well-formed and their optional fields are absent or coercible to their
\* type, a finished run has exit status 0 and has written the opening line,
\* the N blocks in input order, the closing token, the blank line and the
\* count N.
C1_ValidRecordsGiveNBlocks ==
    (pc = "exit" /\ InLoop
     /\ \A j \in 0..(N - 1) : RequiredWellFormed(Rec(j)) /\ OptionalWellFormed(Rec(j)))
        => (status = 0 /\ stdout = FullOutput)

C1_Witness ==
    /\ pc = "exit" /\ InLoop /\ status = 0 /\ N >= 2
    /\ ExpectedBlock(Rec(0)) # ExpectedBlock(Rec(1))
    /\ \A j \in 0..(N - 1) : RequiredWellFormed(Rec(j)) /\ OptionalWellFormed(Rec(j))
    /\ Len(stdout) = 10 * N + 4

\* C2: a run that ends on a record with a missing or invalid required field
\* has written nothing to standard output.
C2_NoPartialOutput == FailedAtRequired => stdout = <<>>

\* C3: a run that ends on a record with a missing or invalid required field
\* has exit status 1 and its last error message states the entry index and
\* an offending field.
C3_ErrorNamesIndexAndField ==
    FailedAtRequired =>
        /\ status = 1
        /\ LastError.index = i
        /\ LastError.field \in OffendingFields(Rec(i))

\* C4: standard output holds nothing but generated code, which starts with
\* the opening line, and a run with a wrong argument count writes nothing
\* to standard output.
C4_StdoutOnlyCode ==
    /\ stdout = <<>> \/ stdout[1] = OpenLine
    /\ argc # 2 => stdout = <<>>

\* C5: a run whose file is missing, is not JSON, holds no array or holds an
\* empty array never enters the loop, and ends with exit status 1, the one
\* matching message on the error stream and nothing on standard output.
C5_LoadFailuresFatal ==
    (argc = 2 /\ (\/ file \in {"missing", "badjson"}
                  \/ file = "ok" /\ (~data.list \/ data.items = <<>>))) =>
        /\ pc \in {"main", "load", "toplevel", "exit"}
        /\ stdout = <<>>
        /\ pc = "exit" =>
            /\ status = 1
            /\ stderr = << ErrMsg(CASE file = "missing" -> "file_not_found"
                                    [] file = "badjson" -> "invalid_json"
                                    [] ~data.list -> "not_an_array"
                                    [] OTHER -> "array_empty", -1, "", Absent) >>

C5_Witness ==
    /\ pc = "exit" /\ argc = 2 /\ file = "ok" /\ data.list /\ data.items = <<>>
    /\ stderr = <<ErrMsg("array_empty", -1, "", Absent)>>

\* C6, as stated: in a finished run, for every record j the run came to
\* whose required fields are well-formed, the dag warning for j is on the
\* error stream exactly if dag is outside 1..31, and then block j is on
\* standard output with that dag and the run did not end at record j.
C6_DagWarningForValidRequired ==
    (pc = "exit" /\ InLoop) =>
        \A j \in 0..(N - 1) : (j <= i /\ RequiredWellFormed(Rec(j))) =>
            /\ OnStderr(DagWarning(j, DagOf(Rec(j)))) <=> DagOutside(Rec(j))
            /\ DagOutside(Rec(j)) =>
                 (BlockAt(j) = ExpectedBlock(Rec(j)) /\ (status = 1 => i > j))

\* C6, amended: for every record j whose required fields are well-formed
\* and whose optional fields are absent or coercible, the dag warning for j
\* is on the error stream exactly if the checks of record j have run and
\* dag is outside 1..31; the run never ends at record j; once record j is
\* done its block, with that dag, is on standard output; and a run in
\* which every record is such ends with the closing lines and status 0.
C6_DagWarningExact ==
    InLoop =>
        /\ \A j \in 0..(N - 1) :
             (RequiredWellFormed(Rec(j)) /\ OptionalWellFormed(Rec(j))) =>
                /\ OnStderr(DagWarning(j, DagOf(Rec(j))))
                     <=> (Checked(j) /\ DagOutside(Rec(j)))
                /\ ~(pc = "exit" /\ status = 1 /\ i = j)
                /\ j < i => BlockAt(j) = ExpectedBlock(Rec(j))
        /\ \A k \in 1..Len(stderr) :
             stderr[k].kind = "warning_dag" =>
                /\ stderr[k].index \in 0..(N - 1)
                /\ stderr[k] = DagWarning(stderr[k].index, DagOf(Rec(stderr[k].index)))
        /\ (pc = "exit" /\ status = 0) =>
             (i = N /\ SubSeq(stdout, Len(stdout) - 2, Len(stdout)) = Closing)

C6_Witness ==
    /\ pc = "exit" /\ status = 0 /\ InLoop /\ N >= 2
    /\ DagOutside(Rec(0)) /\ ~DagOutside(Rec(1))
    /\ OnStderr(DagWarning(0, DagOf(Rec(0))))
    /\ BlockAt(0)[6] = FieldLine("dag", DagOf(Rec(0)))

\* The shape HHMM-HHMM: nine characters, '-' at position 4, decimal digits
\* at positions 0-3 and 5-8 (counted from 0).
DecimalShape(s) ==
    /\ Len(s) = 9
    /\ s[5] = "-"
    /\ \A k \in (1..4) \cup (6..9) : s[k] \in AsciiDigits

\* C7: for every record whose checks have run, the tid warning is on the
\* error stream exactly if the tid given in the input does not have the
\* shape HHMM-HHMM.
C7_TidWarningExact ==
    InLoop =>
        \A j \in 0..(N - 1) : Checked(j) =>
            (OnStderr(TidWarning(j, JStr(escape_rust_string(Rec(j).f["tid"].s))))
                <=> ~DecimalShape(Rec(j).f["tid"].s))

\* Reading s as the inside of a Rust string literal: ok is FALSE when s has
\* an unescaped double quote or an escape other than \\ \" \n \r \t.
RECURSIVE RustUnescape(_)
RustUnescape(s) ==
    IF s = <<>> THEN [ok |-> TRUE, s |-> <<>>]
    ELSE IF Head(s) = "DQ" THEN [ok |-> FALSE, s |-> <<>>]
    ELSE IF Head(s) = "BS"
    THEN IF Len(s) < 2 \/ s[2] \notin {"BS", "DQ", "n", "r", "t"}
         THEN [ok |-> FALSE, s |-> <<>>]
         ELSE LET rest == RustUnescape(SubSeq(s, 3, Len(s)))
                  c == CASE s[2] = "BS" -> "BS" [] s[2] = "DQ" -> "DQ"
                         [] s[2] = "n" -> "LF" [] s[2] = "r" -> "CR"
                         [] s[2] = "t" -> "TAB"
              IN  [ok |-> rest.ok, s |-> IF rest.ok THEN <<c>> \o rest.s ELSE <<>>]
    ELSE LET rest == RustUnescape(Tail(s))
         IN  [ok |-> rest.ok, s |-> IF rest.ok THEN <<Head(s)>> \o rest.s ELSE <<>>]

\* C8: the escaped string reads back, as a Rust string literal, as the
\* original string, has no unescaped double quote, and has no raw newline,
\* carriage return or tab.
C8_EscapeRoundTrip ==
    epc = "escaped" =>
        /\ RustUnescape(eout) = [ok |-> TRUE, s |-> es]
        /\ \A k \in 1..Len(eout) : eout[k] \notin {"LF", "CR", "TAB"}

C8_Witness ==
    /\ epc = "escaped"
    /\ \E a, b, c \in 1..Len(es) : es[a] = "BS" /\ es[b] = "DQ" /\ es[c] = "LF"
    /\ Len(eout) = 6

\* C9, as stated: in a finished run, every record the run came to whose
\* required fields are well-formed has its block on standard output, with
\* info "Parkering" and distance 0.0 when absent and the given values when
\* present, the eight fields in the fixed order.
C9_OptionalForValidRequired ==
    (pc = "exit" /\ InLoop) =>
        \A j \in 0..(N - 1) : (j <= i /\ RequiredWellFormed(Rec(j))) =>
            BlockAt(j) = ExpectedBlock(Rec(j))

\* C9, amended: the run never ends at a record whose required fields are
\* well-formed and whose optional fields are absent or coercible to their
\* type (so never because an optional field is absent), and the block of
\* every record that is done lists the eight fields in the fixed order,
\* with info "Parkering" and distance 0.0 when absent and the given values
\* when present.
C9_OptionalDefaults ==
    InLoop =>
        \A j \in 0..(N - 1) :
            /\ (RequiredWellFormed(Rec(j)) /\ OptionalWellFormed(Rec(j)))
                  => ~(pc = "exit" /\ status = 1 /\ i = j)
            /\ j < i =>
                  /\ BlockAt(j) = ExpectedBlock(Rec(j))
                  /\ [k \in 1..10 |-> BlockAt(j)[k].name]
                       = <<"", "adress", "gata", "gatunummer", "postnummer", "dag",
                           "tid", "info", "distance", "">>
                  /\ Rec(j).f["info"].k = "absent"
                       => BlockAt(j)[8] = FieldLine("info", JStr(Parkering))
                  /\ Rec(j).f["distance"].k = "absent"
                       => BlockAt(j)[9] = FieldLine("distance", JFloat(0, 0))

C9_Witness ==
    /\ pc = "exit" /\ status = 0 /\ InLoop /\ N >= 2
    /\ Rec(0).f["info"].k = "absent" /\ Rec(0).f["distance"].k = "absent"
    /\ Rec(1).f["info"].k = "str" /\ Rec(1).f["distance"].k = "int"
    /\ BlockAt(0)[8] = FieldLine("info", JStr(Parkering))
    /\ BlockAt(1)[9] = FieldLine("distance", JFloat(3, 0))

\* The state part of C10.
StreamingInvariant ==
    InLoop =>
        /\ i <= N
        /\ pc # "exit" => stdout = <<OpenLine>> \o ExpectedBlocks(i)
        /\ pc \in {"required", "optional", "checks", "emit"} => i < N
        /\ (pc = "exit" /\ status = 1) =>
              (i < N /\ stdout = <<OpenLine>> \o ExpectedBlocks(i))
        /\ (pc = "exit" /\ status = 0) => (i = N /\ stdout = FullOutput)
        /\ \A k \in 1..Len(stderr) : stderr[k].index <= i

\* C10: once the loop is entered, standard output is always the opening
\* line and the complete blocks of records 0..i-1 in input order, followed
\* by the closing lines only when the run ended with all N records done;
\* no message is about a record after the one the run is at; and no step
\* is taken once the run has ended.
C10_StreamingPrefix == [](StreamingInvariant) /\ [][pc # "exit"]_vars

C10_Witness ==
    /\ pc = "exit" /\ status = 1 /\ InLoop /\ i = 1
    /\ stdout = <<OpenLine>> \o ExpectedBlock(Rec(0))

====
